---- MODULE Spec2Model ----
(***************************************************************************)
(* Model of pkg/runner (goployer): the deploy, delete and update flows of   *)
(* the Runner, their per-stack phase tasks joined by a wait group, the two *)
(* convergence pollers doHealthchecking and cleanChecking, the messages    *)
(* sent through the Slacker and the end of the process on a panic.         *)
(*                                                                         *)
(* A deployer is identified by the index of its stack in Builder.Stacks.   *)
(* Every goroutine is a little process: a phase task has a position in     *)
(* the list of actions of its phase, a probe task is "run" (inside         *)
(* HealthChecking / TerminateChecking), blocked on its send with a value,  *)
(* or "idle" (not started, or finished).                                   *)
(***************************************************************************)
EXTENDS Integers, Sequences, FiniteSets, TLC

\* ---------------------------------------------------------------- bounds
MaxDeployers == 2   \* deployers of a run (stacks passing the filter)
MaxTimeout == 1     \* the configured timeout, in clock ticks
MaxFalse == 1       \* "not yet" answers a deployer gives to one poller
MaxCap == 2         \* largest size of an autoscaling group

\* the clock is observed up to one tick past the timeout
MaxTime == MaxTimeout + 1

\* declared stacks: one more than the deployers, to be filtered out
MaxStacks == MaxDeployers + 1

\* ---------------------------------------------------------------- inputs
Names == {"A", "B"}

\* Builder.Stacks, up to the order of the stacks and the choice of names:
\* a stacks named "A" followed by b <= a stacks named "B"
StackLists ==
  { l \in { [i \in 1..(a + b) |-> IF i <= a THEN "A" ELSE "B"] :
             a \in 0..MaxStacks, b \in 0..MaxStacks } :
      /\ Len(l) <= MaxStacks
      /\ Cardinality({i \in 1..Len(l) : l[i] = "B"}) <= Cardinality({i \in 1..Len(l) : l[i] = "A"}) }

Modes == {"deploy", "delete"}

\* Builder.Config and Builder.MetricConfig, and whether the Slacker made by
\* NewRunner is a valid client (SlackClient). The four switches are read at
\* four places of a run, none depending on another: a configuration sets at
\* most one of them
Configs ==
  { c \in [ Stack : {""} \cup Names,
            AutoApply : BOOLEAN,
            MetricEnabled : BOOLEAN,
            SlackOff : BOOLEAN,
            SlackClient : BOOLEAN,
            Timeout : {MaxTimeout},
            StartTimestamp : {0} ] :
      Cardinality({ f \in {"AutoApply", "MetricEnabled", "SlackOff", "SlackClient"} : c[f] }) <= 1 }

\* schemas.Capacity
Capacities == [Min : 0..MaxCap, Max : 0..MaxCap, Desired : 0..MaxCap]

\* the capacity of a live autoscaling group: min <= desired <= max
LiveGroups == { c \in Capacities : c.Min <= c.Desired /\ c.Desired <= c.Max }

\* Config.Min, Config.Max, Config.Desired of an update run: a negative value
\* when the flag is not given
Overrides == [Min : (-1)..MaxCap, Max : (-1)..MaxCap, Desired : (-1)..MaxCap]

\* an update run reads neither the stack filter nor the metrics switch, and
\* it sends no message whatever SlackOff and the Slacker are
UpdateConfigs ==
  { c \in Configs : c.Stack = "" /\ ~c.MetricEnabled /\ ~c.SlackOff /\ ~c.SlackClient }

\* the update runs of the specification of all modes: sizes up to 1
SmallGroups == { c \in LiveGroups : c.Max <= 1 }
SmallOverrides == { o \in Overrides : o.Min <= 1 /\ o.Max <= 1 /\ o.Desired <= 1 }

\* ---------------------------------------------------------------- helpers
Range(s) == { s[i] : i \in 1..Len(s) }

\* tool.IsStringInArray
IsStringInArray(s, arr) == s \in Range(arr)

\* tool.CheckTimeout(start, timeout) read at clock value t
CheckTimeout(start, timeout, t) == (t - start) > timeout

\* the stack filter of the "Prepare deployers" loops:
\*   if Config.Stack != "" && stack.Stack != Config.Stack { continue }
InScopeLoose(filter, name) == filter = "" \/ filter # name
InScope(filter, name) == ~(filter # "" /\ name # filter)

\* the manifests and configurations a run is started with
Inputs ==
  { in \in [stacks : StackLists, config : Configs] :
      Cardinality({ k \in 1..Len(in.stacks) : InScope(in.config.Stack, in.stacks[k]) })
        <= MaxDeployers }

\* checkManifestCommands
checkManifestCommands(m) == IsStringInArray(m, <<"deploy", "delete">>)

\* makeCapacityStruct
makeCapacityStruct(min, max, desired) == [Min |-> min, Max |-> max, Desired |-> desired]

\* nullCheck: the original value if no input exists
nullCheckPositive(input, origin) == IF input <= 0 THEN origin ELSE input
nullCheck(input, origin) == IF input < 0 THEN origin ELSE input

\* CheckUpdateInformation: "nil", or the error it returns
CheckUpdateInformationNoNoop(old, new) ==
  IF new.Min > new.Max THEN "minimum value cannot be larger than maximum value"
  ELSE IF new.Min > new.Desired THEN "desired value cannot be smaller than maximum value"
  ELSE IF new.Desired > new.Max THEN "desired value cannot be larger than max value"
  ELSE "nil"
CheckUpdateInformationReordered(old, new) ==
  IF new.Min > new.Desired THEN "desired value cannot be smaller than maximum value"
  ELSE IF new.Min > new.Max THEN "minimum value cannot be larger than maximum value"
  ELSE IF new.Desired > new.Max THEN "desired value cannot be larger than max value"
  ELSE IF old = new THEN "nothing is updated"
  ELSE "nil"
CheckUpdateInformation(old, new) ==
  IF new.Min > new.Max THEN "minimum value cannot be larger than maximum value"
  ELSE IF new.Min > new.Desired THEN "desired value cannot be smaller than maximum value"
  ELSE IF new.Desired > new.Max THEN "desired value cannot be larger than max value"
  ELSE IF old = new THEN "nothing is updated"
  ELSE "nil"

\* Runner.LocalCheck returns the error "you declined to run command"
LocalCheckAlwaysAsks(darwin, autoApply, answer) == darwin /\ ~answer
LocalCheckDeclined(darwin, autoApply, answer) == darwin /\ ~autoApply /\ ~answer

\* the step of each flow that follows its LocalCheck
AfterLocalCheck(m) ==
  CASE m = "deploy" -> "PrintSummary"
    [] m = "delete" -> "CheckEnabledMetrics"
    [] OTHER -> "UpdateApply"

\* the post action of Start, a closure over Start's own builderSt: the
\* messages it sends, given builderSt.Config.SlackOff
postAction(m, builderSlackOff) ==
  IF builderSlackOff THEN {}
  ELSE CASE m = "deploy" -> {"Deployment is done"}
         [] m = "delete" -> {"Delete process is done"}
         [] OTHER -> {}

\* what follows a nil of doHealthchecking: Deploy starts its next phase,
\* Update returns nil
AfterHealth(m) == IF m = "deploy" THEN "Spawn" ELSE "Done"

\* the per-stack actions of each phase goroutine, by mode
DeployPhases ==
  << <<"CheckPrevious", "Deploy">>,
     <<"FinishAdditionalWork", "TriggerLifecycleCallbacks", "CleanPreviousVersion">>,
     <<"GatherMetrics">>,
     <<"RunAPITest">> >>

DeletePhasesLikeDeploy ==
  << <<"CheckPrevious", "Deploy", "TriggerLifecycleCallbacks", "CleanPreviousVersion">>,
     <<"GatherMetrics">> >>
DeletePhases ==
  << <<"CheckPrevious", "SkipDeployStep", "TriggerLifecycleCallbacks", "CleanPreviousVersion">>,
     <<"GatherMetrics">> >>

Phases(m) ==
  CASE m = "deploy" -> DeployPhases
    [] m = "delete" -> DeletePhases
    [] OTHER -> << >>

\* what follows the wg.Wait() of phase p
AfterPhaseNoHealth(m, p) ==
  IF m = "deploy"
  THEN CASE p = 1 -> "Spawn"
         [] p = 2 -> "Clean"
         [] p = 3 -> "Spawn"
         [] OTHER -> "Done"
  ELSE CASE p = 1 -> "Clean"
         [] OTHER -> "Done"
AfterPhase(m, p) ==
  IF m = "deploy"
  THEN CASE p = 1 -> "Health"
         [] p = 2 -> "Clean"
         [] p = 3 -> "Spawn"
         [] OTHER -> "Done"
  ELSE CASE p = 1 -> "Clean"
         [] OTHER -> "Done"

\* SkipDeployStep has no error result; every other action returns an error
ReturnsError(a) == a # "SkipDeployStep"

\* a phase goroutine after an action returned (err or nil): the error is
\* logged and the goroutine goes on with its next action
AfterActionAbort(pos, len, err) == IF err THEN len ELSE pos + 1
AfterAction(pos, len, err) == pos + 1

\* an action's error never reaches the return value of Deploy / Delete
VerdictAfterActionFatal(v, err) == IF err THEN "action" ELSE v
VerdictAfterAction(v, err) == v

\* wg.Wait(): every task of the phase has called wg.Done()
WaitDoneAny(t, ds, len) == ds = {} \/ \E k \in ds : t[k] = len
WaitDone(t, ds, len) == \A k \in ds : t[k] = len

\* doHealthchecking reads the deadline's origin from config.StartTimestamp;
\* entry is the clock value at which the loop was entered
TimeoutStartAtEntry(cfg, entry) == entry
TimeoutStart(cfg, entry) == cfg.StartTimestamp

\* if ret["error"] { return errors.New(...) }
RetErrorIgnored(v) == FALSE
RetError(v) == v = "error"

\* for key, val := range ret { if val { list = append(list, key) } }
MergeAlways(list, key, val) == Append(list, key)
Merge(list, key, val) == IF val THEN Append(list, key) ELSE list

\* the deployers probed in a round: those whose name is not in the list
ToProbeAll(ds, names, list) == ds
ToProbe(ds, names, list) == { k \in ds : ~IsStringInArray(names[k], list) }

\* if len(list) == len(deployers): the poller is done
AllDoneEager(list, ds) == Len(list) >= 1 \/ Len(ds) = 0
AllDoneNonEmpty(list, ds) == Len(list) = Len(ds) /\ Len(ds) > 0
AllDone(list, ds) == Len(list) = Len(ds)

\* the rounds counter stops counting at MaxRounds
MaxRounds == MaxFalse + 2
NextRound(r) == IF r < MaxRounds THEN r + 1 ELSE r

\* cleanChecking has no deadline check at the top of its loop
CleanDeadlineLikeHealth(cfg, t) == CheckTimeout(cfg.StartTimestamp, cfg.Timeout, t)
CleanDeadline(cfg, t) == FALSE

\* ---------------------------------------------------------------- state
VARIABLES
  mode,              \* "deploy" | "delete" | "update"
  config,            \* Builder.Config / Builder.MetricConfig
  stacks,            \* Builder.Stacks (names)
  now,               \* the clock
  pc,                \* position of the runner
  phase,             \* phase being run
  verdict,           \* "none" while running, then "ok" or the error
  deployers,         \* the deployers slice (stack indices)
  task,              \* position of each phase goroutine
  calls,             \* per stack: actions invoked so far
  failed,            \* some action of some stack returned an error
  passed,            \* some action of some stack returned nil
  \* Update
  group,             \* sizes of the live autoscaling group
  override,          \* Config.Min, Config.Max, Config.Desired
  oldCapacity,       \* local of Update
  newCapacity,       \* local of Update
  updateCalls,       \* the Capacity of each call of inspector.Update
  \* notification
  slackOff,          \* r.Builder.Config.SlackOff, in the receiver of Deploy / Delete
  sent,              \* messages sent through the Slacker
  \* doHealthchecking
  hpc, healthyStackList, hcount, hprobes, hresult,
  hentry, hrounds, nhprobe, hfirst,
  \* cleanChecking
  cpc, doneStackList, ccount, cprobes, cresult,
  crounds, ncprobe, cfirst

hvars == <<hpc, healthyStackList, hcount, hprobes, hresult, hentry, hrounds, nhprobe, hfirst>>
cvars == <<cpc, doneStackList, ccount, cprobes, cresult, crounds, ncprobe, cfirst>>
runvars == <<pc, phase, verdict, deployers, task, calls, failed, passed>>
uvars == <<group, override, oldCapacity, newCapacity, updateCalls>>
svars == <<slackOff, sent>>
vars == <<mode, config, stacks, now, runvars, uvars, svars, hvars, cvars>>

Idx == 1..Len(stacks)
DeployerSet == Range(deployers)
Zero == [k \in Idx |-> 0]
Idle == [k \in Idx |-> "idle"]
ZeroCapacity == makeCapacityStruct(0, 0, 0)
NoOverride == makeCapacityStruct(-1, -1, -1)

Init ==
  /\ \/ /\ mode \in Modes
        /\ \E in \in Inputs : stacks = in.stacks /\ config = in.config
        /\ group = ZeroCapacity /\ override = NoOverride
     \/ /\ mode = "update"
        /\ stacks = <<"A">>
        /\ config \in UpdateConfigs
        /\ group \in SmallGroups /\ override \in SmallOverrides
  /\ oldCapacity = ZeroCapacity /\ newCapacity = ZeroCapacity /\ updateCalls = << >>
  /\ slackOff = config.SlackOff /\ sent = {}
  /\ now = 0
  /\ pc = "Start"
  /\ phase = 0
  /\ verdict = "none"
  /\ deployers = << >>
  /\ task = Zero
  /\ calls = [k \in Idx |-> << >>]
  /\ failed = FALSE
  /\ passed = FALSE
  /\ hpc = "idle" /\ healthyStackList = << >> /\ hcount = 0 /\ hprobes = Idle
  /\ hresult = "none" /\ hentry = 0 /\ hrounds = 0 /\ nhprobe = Zero /\ hfirst = Zero
  /\ cpc = "idle" /\ doneStackList = << >> /\ ccount = 0 /\ cprobes = Idle
  /\ cresult = "none" /\ crounds = 0 /\ ncprobe = Zero /\ cfirst = Zero

\* ---------------------------------------------------------------- the run
\* Start / withRunner / Run: validation, then dispatch on the mode
Start ==
  /\ pc = "Start"
  /\ IF checkManifestCommands(mode)
     THEN \E valid \in BOOLEAN :
            IF valid
            THEN pc' = "LocalCheck" /\ verdict' = verdict
            ELSE pc' = "Done" /\ verdict' = "validation"
     ELSE pc' = "UpdateFetch" /\ verdict' = verdict
  /\ UNCHANGED <<mode, config, stacks, uvars, svars, now, phase, deployers, task, calls, failed, passed, hvars, cvars>>

\* Runner.LocalCheck: first statement of Deploy and Delete, called by Update
\* between CheckUpdateInformation and inspector.Update
LocalCheck ==
  /\ pc = "LocalCheck"
  /\ \E darwin \in BOOLEAN, answer \in BOOLEAN :
       IF LocalCheckDeclined(darwin, config.AutoApply, answer)
       THEN pc' = "Done" /\ verdict' = "declined" /\ slackOff' = slackOff
       ELSE /\ pc' = AfterLocalCheck(mode) /\ verdict' = verdict
            \* Delete: r.Builder.Config.SlackOff = true
            /\ slackOff' = IF mode = "delete" THEN TRUE ELSE slackOff
  /\ UNCHANGED <<mode, config, stacks, uvars, sent, now, phase, deployers, task, calls, failed, passed, hvars, cvars>>

\* Deploy: Builder.PrintSummary, then the summary message if the Slacker is
\* a valid client
PrintSummary ==
  /\ pc = "PrintSummary"
  /\ \E ok \in BOOLEAN :
       IF ok
       THEN /\ pc' = "CheckEnabledMetrics" /\ verdict' = verdict
            /\ sent' = IF config.SlackClient THEN sent \cup {"summary"} ELSE sent
       ELSE /\ pc' = "Done" /\ verdict' = "summary"
            /\ sent' = sent
  /\ UNCHANGED <<mode, config, stacks, uvars, slackOff, now, phase, deployers, task, calls, failed, passed, hvars, cvars>>

\* if MetricConfig.Enabled { CheckEnabledMetrics() }
CheckEnabledMetrics ==
  /\ pc = "CheckEnabledMetrics"
  /\ \E ok \in BOOLEAN :
       IF config.MetricEnabled /\ ~ok
       THEN pc' = "Done" /\ verdict' = "storage"
       ELSE pc' = "PrepareDeployers" /\ verdict' = verdict
  /\ UNCHANGED <<mode, config, stacks, uvars, svars, now, phase, deployers, task, calls, failed, passed, hvars, cvars>>

\* "Prepare deployers": one deployer per stack passing the filter
PrepareDeployers ==
  /\ pc = "PrepareDeployers"
  /\ deployers' = SelectSeq([k \in Idx |-> k], LAMBDA k : InScope(config.Stack, stacks[k]))
  /\ pc' = "Spawn"
  /\ phase' = 1
  /\ UNCHANGED <<mode, config, stacks, uvars, svars, now, verdict, task, calls, failed, passed, hvars, cvars>>

\* for _, d := range deployers { wg.Add(1); go func(...) }
SpawnPhase ==
  /\ pc = "Spawn"
  /\ task' = Zero
  /\ pc' = "Wait"
  /\ UNCHANGED <<mode, config, stacks, uvars, svars, now, phase, verdict, deployers, calls, failed, passed, hvars, cvars>>

\* one action of the phase goroutine of deployer k
TaskStep(k) ==
  /\ pc = "Wait"
  /\ k \in DeployerSet
  /\ LET acts == Phases(mode)[phase]
     IN /\ task[k] < Len(acts)
        /\ LET a == acts[task[k] + 1]
           IN /\ calls' = [calls EXCEPT ![k] = Append(@, a)]
              /\ \E err \in {FALSE} \cup {e \in {TRUE} : ReturnsError(a)} :
                   /\ failed' = (failed \/ err)
                   /\ passed' = (passed \/ (ReturnsError(a) /\ ~err))
                   /\ task' = [task EXCEPT ![k] = AfterAction(@, Len(acts), err)]
                   /\ verdict' = VerdictAfterAction(verdict, err)
  /\ UNCHANGED <<mode, config, stacks, uvars, svars, now, pc, phase, deployers, hvars, cvars>>

\* wg.Wait() returns; the runner calls a poller, starts the next phase or
\* returns nil, and then withRunner calls the post action
WaitPhase ==
  /\ pc = "Wait"
  /\ WaitDone(task, DeployerSet, Len(Phases(mode)[phase]))
  /\ LET nxt == AfterPhase(mode, phase)
     IN /\ pc' = nxt
        /\ phase' = IF nxt = "Spawn" THEN phase + 1 ELSE phase
        /\ verdict' = IF nxt = "Done" THEN "ok" ELSE verdict
        /\ sent' = IF nxt = "Done" THEN sent \cup postAction(mode, config.SlackOff) ELSE sent
        /\ IF nxt = "Health"
           THEN /\ hpc' = "top"
                /\ hentry' = now
                /\ UNCHANGED <<healthyStackList, hcount, hprobes, hresult, hrounds, nhprobe, hfirst>>
           ELSE UNCHANGED hvars
        /\ IF nxt = "Clean"
           THEN /\ cpc' = "top"
                /\ UNCHANGED <<doneStackList, ccount, cprobes, cresult, crounds, ncprobe, cfirst>>
           ELSE UNCHANGED cvars
  /\ UNCHANGED <<mode, config, stacks, uvars, slackOff, now, deployers, task, calls, failed, passed>>

\* Update: SelectStack, GetStackInformation, then the two capacities
UpdateFetch ==
  /\ pc = "UpdateFetch"
  /\ \E ok \in BOOLEAN :
       IF ok
       THEN /\ oldCapacity' = makeCapacityStruct(group.Min, group.Max, group.Desired)
            /\ newCapacity' = makeCapacityStruct(nullCheck(override.Min, oldCapacity'.Min),
                                                 nullCheck(override.Max, oldCapacity'.Max),
                                                 nullCheck(override.Desired, oldCapacity'.Desired))
            /\ pc' = "CheckUpdate" /\ verdict' = verdict
       ELSE /\ pc' = "Done" /\ verdict' = "inspect"
            /\ UNCHANGED <<oldCapacity, newCapacity>>
  /\ UNCHANGED <<mode, config, stacks, svars, now, phase, deployers, task, calls, failed, passed,
                 group, override, updateCalls, hvars, cvars>>

\* Update: if err := CheckUpdateInformation(oldCapacity, newCapacity); err != nil { return err }
CheckUpdate ==
  /\ pc = "CheckUpdate"
  /\ LET err == CheckUpdateInformation(oldCapacity, newCapacity)
     IN IF err = "nil"
        THEN pc' = "LocalCheck" /\ verdict' = verdict
        ELSE pc' = "Done" /\ verdict' = err
  /\ UNCHANGED <<mode, config, stacks, uvars, svars, now, phase, deployers, task, calls, failed, passed, hvars, cvars>>

\* Update: inspector.Update with the new capacity; then the deployer of the
\* group is created and doHealthchecking is called
UpdateApply ==
  /\ pc = "UpdateApply"
  /\ updateCalls' = Append(updateCalls, newCapacity)
  /\ \E ok \in BOOLEAN :
       IF ok
       THEN /\ group' = newCapacity
            /\ deployers' = <<1>>
            /\ pc' = "Health" /\ verdict' = verdict
            /\ hpc' = "top" /\ hentry' = now
       ELSE /\ pc' = "Done" /\ verdict' = "update"
            /\ UNCHANGED <<group, deployers, hpc, hentry>>
  /\ UNCHANGED <<mode, config, stacks, svars, now, phase, task, calls, failed, passed,
                 override, oldCapacity, newCapacity,
                 healthyStackList, hcount, hprobes, hresult, hrounds, nhprobe, hfirst, cvars>>

\* time passes
Tick ==
  /\ pc # "Done"
  /\ now < MaxTime
  /\ now' = now + 1
  /\ UNCHANGED <<mode, config, stacks, uvars, svars, runvars, hvars, cvars>>

\* ---------------------------------------------------------------- doHealthchecking
\* "count++" once per goroutine started in the round: the number of messages
\* the collector is going to receive
RoundCountShort(L) == IF L = {} THEN 0 ELSE Cardinality(L) - 1
RoundCount(L) == Cardinality(L)

\* the probe goroutines when the collector returns the sentinel error it got
\* from sender k: the sender has finished, nobody receives from the others
ProbesAtReturnDrained(p, k) == [j \in DOMAIN p |-> "idle"]
ProbesAtReturn(p, k) == [p EXCEPT ![k] = "idle"]

\* top of "for !healthy": deadline check, then one probe goroutine per
\* deployer that is not in healthyStackList
HealthRound ==
  /\ pc = "Health" /\ hpc = "top"
  /\ IF CheckTimeout(TimeoutStart(config, hentry), config.Timeout, now)
     THEN /\ hresult' = "timeout"
          /\ hpc' = "done"
          /\ UNCHANGED <<healthyStackList, hcount, hprobes, hentry, hrounds, nhprobe, hfirst>>
     ELSE LET L == ToProbe(DeployerSet, stacks, healthyStackList)
          IN /\ hprobes' = [k \in Idx |-> IF k \in L THEN "run" ELSE hprobes[k]]
             /\ nhprobe' = [k \in Idx |-> IF k \in L THEN nhprobe[k] + 1 ELSE nhprobe[k]]
             /\ hcount' = RoundCount(L)
             /\ hrounds' = NextRound(hrounds)
             /\ hpc' = "collect"
             /\ UNCHANGED <<healthyStackList, hresult, hentry, hfirst>>
  /\ UNCHANGED <<mode, config, stacks, uvars, svars, now, runvars, cvars>>

\* deployer.HealthChecking(config) returns inside its goroutine, which then
\* blocks on "ch <-"
HealthProbe(k) ==
  /\ k \in Idx
  /\ hprobes[k] = "run"
  /\ \E r \in {"true", "error"} \cup {f \in {"false"} : nhprobe[k] <= MaxFalse} :
       hprobes' = [hprobes EXCEPT ![k] = r]
  /\ UNCHANGED <<mode, config, stacks, uvars, svars, now, runvars, cvars,
                 hpc, healthyStackList, hcount, hresult, hentry, hrounds, nhprobe, hfirst>>

\* ret := <-ch, from the blocked sender k
HealthReceive(k) ==
  /\ pc = "Health" /\ hpc = "collect" /\ hcount > 0
  /\ k \in Idx
  /\ hprobes[k] \in {"true", "false", "error"}
  /\ IF RetError(hprobes[k])
     THEN /\ hresult' = "sentinel"
          /\ hpc' = "done"
          /\ hprobes' = ProbesAtReturn(hprobes, k)
          /\ UNCHANGED <<healthyStackList, hcount, hfirst>>
     ELSE /\ healthyStackList' =
               IF hprobes[k] = "error" THEN healthyStackList
               ELSE Merge(healthyStackList, stacks[k], hprobes[k] = "true")
          /\ hfirst' = [hfirst EXCEPT ![k] = IF hprobes[k] = "true" THEN hrounds ELSE @]
          /\ hcount' = hcount - 1
          /\ hprobes' = [hprobes EXCEPT ![k] = "idle"]
          /\ UNCHANGED <<hresult, hpc>>
  /\ UNCHANGED <<mode, config, stacks, uvars, svars, now, runvars, cvars, hentry, hrounds, nhprobe>>

\* after "for count > 0": healthy, or sleep and go round again
HealthRoundEnd ==
  /\ pc = "Health" /\ hpc = "collect" /\ hcount = 0
  /\ IF AllDone(healthyStackList, deployers)
     THEN hresult' = "ok" /\ hpc' = "done"
     ELSE hresult' = hresult /\ hpc' = "sleep"
  /\ UNCHANGED <<mode, config, stacks, uvars, svars, now, runvars, cvars,
                 healthyStackList, hcount, hprobes, hentry, hrounds, nhprobe, hfirst>>

\* time.Sleep(config.PollingInterval) returns
HealthSleep ==
  /\ pc = "Health" /\ hpc = "sleep"
  /\ hpc' = "top"
  /\ UNCHANGED <<mode, config, stacks, uvars, svars, now, runvars, cvars,
                 healthyStackList, hcount, hprobes, hresult, hentry, hrounds, nhprobe, hfirst>>

\* Deploy, Update: if err := doHealthchecking(...); err != nil { return err }
HealthReturn ==
  /\ pc = "Health" /\ hpc = "done"
  /\ IF hresult = "ok"
     THEN /\ pc' = AfterHealth(mode)
          /\ phase' = IF pc' = "Spawn" THEN phase + 1 ELSE phase
          /\ verdict' = IF pc' = "Done" THEN "ok" ELSE verdict
          /\ sent' = IF pc' = "Done" THEN sent \cup postAction(mode, config.SlackOff) ELSE sent
          /\ hpc' = "idle" /\ healthyStackList' = << >> /\ hcount' = 0
          /\ hentry' = 0 /\ hrounds' = 0 /\ nhprobe' = Zero /\ hfirst' = Zero
          /\ UNCHANGED <<hprobes, hresult>>
     ELSE /\ pc' = "Done" /\ phase' = phase /\ verdict' = hresult
          /\ sent' = sent
          /\ UNCHANGED hvars
  /\ UNCHANGED <<mode, config, stacks, uvars, slackOff, now, deployers, task, calls, failed, passed, cvars>>

\* ---------------------------------------------------------------- cleanChecking
\* top of "for !done": one probe goroutine per deployer not in doneStackList
CleanRound ==
  /\ pc = "Clean" /\ cpc = "top"
  /\ IF CleanDeadline(config, now)
     THEN /\ cresult' = "timeout"
          /\ cpc' = "done"
          /\ UNCHANGED <<doneStackList, ccount, cprobes, crounds, ncprobe, cfirst>>
     ELSE LET L == ToProbe(DeployerSet, stacks, doneStackList)
          IN /\ cprobes' = [k \in Idx |-> IF k \in L THEN "run" ELSE cprobes[k]]
             /\ ncprobe' = [k \in Idx |-> IF k \in L THEN ncprobe[k] + 1 ELSE ncprobe[k]]
             /\ ccount' = RoundCount(L)
             /\ crounds' = NextRound(crounds)
             /\ cpc' = "collect"
             /\ UNCHANGED <<doneStackList, cresult, cfirst>>
  /\ UNCHANGED <<mode, config, stacks, uvars, svars, now, runvars, hvars>>

\* deployer.TerminateChecking(config) returns inside its goroutine
CleanProbe(k) ==
  /\ k \in Idx
  /\ cprobes[k] = "run"
  /\ \E r \in {"true"} \cup {f \in {"false"} : ncprobe[k] <= MaxFalse} :
       cprobes' = [cprobes EXCEPT ![k] = r]
  /\ UNCHANGED <<mode, config, stacks, uvars, svars, now, runvars, hvars,
                 cpc, doneStackList, ccount, cresult, crounds, ncprobe, cfirst>>

\* ret := <-ch, from the blocked sender k
CleanReceive(k) ==
  /\ pc = "Clean" /\ cpc = "collect" /\ ccount > 0
  /\ k \in Idx
  /\ cprobes[k] \in {"true", "false"}
  /\ cprobes' = [cprobes EXCEPT ![k] = "idle"]
  /\ doneStackList' = Merge(doneStackList, stacks[k], cprobes[k] = "true")
  /\ cfirst' = [cfirst EXCEPT ![k] = IF cprobes[k] = "true" THEN crounds ELSE @]
  /\ ccount' = ccount - 1
  /\ UNCHANGED <<mode, config, stacks, uvars, svars, now, runvars, hvars, cpc, cresult, crounds, ncprobe>>

\* after "for count > 0": done, or sleep and go round again
CleanRoundEnd ==
  /\ pc = "Clean" /\ cpc = "collect" /\ ccount = 0
  /\ IF AllDone(doneStackList, deployers)
     THEN cresult' = "ok" /\ cpc' = "done"
     ELSE cresult' = cresult /\ cpc' = "sleep"
  /\ UNCHANGED <<mode, config, stacks, uvars, svars, now, runvars, hvars,
                 doneStackList, ccount, cprobes, crounds, ncprobe, cfirst>>

\* time.Sleep(config.PollingInterval) returns
CleanSleep ==
  /\ pc = "Clean" /\ cpc = "sleep"
  /\ cpc' = "top"
  /\ UNCHANGED <<mode, config, stacks, uvars, svars, now, runvars, hvars,
                 doneStackList, ccount, cprobes, cresult, crounds, ncprobe, cfirst>>

\* if err := cleanChecking(...); err != nil { return err }
CleanReturn ==
  /\ pc = "Clean" /\ cpc = "done"
  /\ IF cresult = "ok"
     THEN /\ pc' = "Spawn" /\ phase' = phase + 1 /\ verdict' = verdict
          /\ cpc' = "idle" /\ doneStackList' = << >> /\ ccount' = 0
          /\ crounds' = 0 /\ ncprobe' = Zero /\ cfirst' = Zero
          /\ UNCHANGED <<cprobes, cresult>>
     ELSE /\ pc' = "Done" /\ phase' = phase /\ verdict' = cresult
          /\ UNCHANGED cvars
  /\ UNCHANGED <<mode, config, stacks, uvars, svars, now, deployers, task, calls, failed, passed, hvars>>

\* ---------------------------------------------------------------- specifications
CleanStep ==
  \/ CleanRound
  \/ \E k \in 1..MaxStacks : CleanProbe(k)
  \/ \E k \in 1..MaxStacks : CleanReceive(k)
  \/ CleanRoundEnd
  \/ CleanSleep

Next ==
  \/ Start
  \/ LocalCheck
  \/ PrintSummary
  \/ CheckEnabledMetrics
  \/ PrepareDeployers
  \/ SpawnPhase
  \/ \E k \in 1..MaxStacks : TaskStep(k)
  \/ WaitPhase
  \/ UpdateFetch
  \/ CheckUpdate
  \/ UpdateApply
  \/ HealthRound
  \/ \E k \in 1..MaxStacks : HealthProbe(k)
  \/ \E k \in 1..MaxStacks : HealthReceive(k)
  \/ HealthRoundEnd
  \/ HealthSleep
  \/ HealthReturn
  \/ CleanRound
  \/ \E k \in 1..MaxStacks : CleanProbe(k)
  \/ \E k \in 1..MaxStacks : CleanReceive(k)
  \/ CleanRoundEnd
  \/ CleanSleep
  \/ CleanReturn
  \/ Tick

Spec == Init /\ [][Next]_vars

\* cleanChecking on its own: the state at its call, any deployers
InitClean ==
  /\ mode \in Modes
  /\ \E in \in Inputs : stacks = in.stacks /\ config = in.config
  /\ group = ZeroCapacity /\ override = NoOverride
  /\ oldCapacity = ZeroCapacity /\ newCapacity = ZeroCapacity /\ updateCalls = << >>
  /\ slackOff = config.SlackOff /\ sent = {}
  /\ now = 0
  /\ pc = "Clean"
  /\ phase = (IF mode = "deploy" THEN 2 ELSE 1)
  /\ verdict = "none"
  /\ deployers = SelectSeq([k \in Idx |-> k], LAMBDA k : InScope(config.Stack, stacks[k]))
  /\ task = [k \in Idx |-> IF InScope(config.Stack, stacks[k]) THEN Len(Phases(mode)[phase]) ELSE 0]
  /\ calls = [k \in Idx |-> IF ~InScope(config.Stack, stacks[k]) THEN << >>
                            ELSE IF mode = "deploy" THEN DeployPhases[1] \o DeployPhases[2]
                            ELSE DeletePhases[1]]
  /\ failed = FALSE
  /\ passed = (deployers # << >>)
  /\ hpc = "idle" /\ healthyStackList = << >> /\ hcount = 0 /\ hprobes = Idle
  /\ hresult = (IF mode = "deploy" THEN "ok" ELSE "none")
  /\ hentry = 0 /\ hrounds = 0 /\ nhprobe = Zero /\ hfirst = Zero
  /\ cpc = "top" /\ doneStackList = << >> /\ ccount = 0 /\ cprobes = Idle
  /\ cresult = "none" /\ crounds = 0 /\ ncprobe = Zero /\ cfirst = Zero

NextClean ==
  \/ CleanRound
  \/ \E k \in 1..MaxStacks : CleanProbe(k)
  \/ \E k \in 1..MaxStacks : CleanReceive(k)
  \/ CleanRoundEnd
  \/ CleanSleep
  \/ Tick

\* the Go scheduler runs every runnable goroutine: the collector and the
\* probe goroutines of cleanChecking keep taking their steps
FairClean == InitClean /\ [][NextClean]_vars /\ WF_vars(CleanStep)

\* ---------------------------------------------------------------- panics
\* the end of the process when goroutine g panics: the deferred function of
\* Deploy / Delete recovers a panic of the goroutine that runs Deploy /
\* Delete, logs it and calls os.Exit(1); a panic of any other goroutine is
\* not recovered and the Go runtime aborts the process
AfterPanic(g) == IF g = "runner" THEN "Exited" ELSE "Crashed"

\* a panic in the runner's own sequence of Deploy / Delete
RunnerPanic ==
  /\ mode \in Modes
  /\ pc \notin {"Start", "Wait", "Done", "Exited", "Crashed"}
  /\ pc' = AfterPanic("runner")
  /\ hprobes' = Idle /\ cprobes' = Idle
  /\ UNCHANGED <<mode, config, stacks, uvars, svars, now, phase, verdict, deployers, task, calls, failed, passed,
                 hpc, healthyStackList, hcount, hresult, hentry, hrounds, nhprobe, hfirst,
                 cpc, doneStackList, ccount, cresult, crounds, ncprobe, cfirst>>

\* a panic inside an action called by the phase goroutine of deployer k
TaskPanic(k) ==
  /\ mode \in Modes
  /\ pc = "Wait"
  /\ k \in DeployerSet
  /\ task[k] < Len(Phases(mode)[phase])
  /\ pc' = AfterPanic("task")
  /\ hprobes' = Idle /\ cprobes' = Idle
  /\ UNCHANGED <<mode, config, stacks, uvars, svars, now, phase, verdict, deployers, task, calls, failed, passed,
                 hpc, healthyStackList, hcount, hresult, hentry, hrounds, nhprobe, hfirst,
                 cpc, doneStackList, ccount, cresult, crounds, ncprobe, cfirst>>

\* a panic inside HealthChecking / TerminateChecking, called by a probe
\* goroutine of deployer k
ProbePanic(k) ==
  /\ mode \in Modes
  /\ pc \in {"Health", "Clean"}
  /\ k \in Idx
  /\ hprobes[k] = "run" \/ cprobes[k] = "run"
  /\ pc' = AfterPanic("probe")
  /\ hprobes' = Idle /\ cprobes' = Idle
  /\ UNCHANGED <<mode, config, stacks, uvars, svars, now, phase, verdict, deployers, task, calls, failed, passed,
                 hpc, healthyStackList, hcount, hresult, hentry, hrounds, nhprobe, hfirst,
                 cpc, doneStackList, ccount, cresult, crounds, ncprobe, cfirst>>

\* the runs of Spec with no switch set and no stack filter, and panics
InitPanic ==
  /\ Init
  /\ config.Stack = ""
  /\ ~config.AutoApply /\ ~config.MetricEnabled /\ ~config.SlackOff /\ ~config.SlackClient

NextPanic ==
  \/ Next
  \/ RunnerPanic
  \/ \E k \in 1..MaxStacks : TaskPanic(k)
  \/ \E k \in 1..MaxStacks : ProbePanic(k)

PanicSpec == InitPanic /\ [][NextPanic]_vars

\* Update on its own: any live group, any overrides
InitUpdate ==
  /\ mode = "update"
  /\ stacks = <<"A">>
  /\ config \in UpdateConfigs
  /\ group \in LiveGroups /\ override \in Overrides
  /\ oldCapacity = ZeroCapacity /\ newCapacity = ZeroCapacity /\ updateCalls = << >>
  /\ slackOff = config.SlackOff /\ sent = {}
  /\ now = 0
  /\ pc = "Start"
  /\ phase = 0
  /\ verdict = "none"
  /\ deployers = << >>
  /\ task = Zero
  /\ calls = [k \in Idx |-> << >>]
  /\ failed = FALSE
  /\ passed = FALSE
  /\ hpc = "idle" /\ healthyStackList = << >> /\ hcount = 0 /\ hprobes = Idle
  /\ hresult = "none" /\ hentry = 0 /\ hrounds = 0 /\ nhprobe = Zero /\ hfirst = Zero
  /\ cpc = "idle" /\ doneStackList = << >> /\ ccount = 0 /\ cprobes = Idle
  /\ cresult = "none" /\ crounds = 0 /\ ncprobe = Zero /\ cfirst = Zero

NextUpdate ==
  \/ Start
  \/ UpdateFetch
  \/ CheckUpdate
  \/ LocalCheck
  \/ UpdateApply
  \/ HealthRound
  \/ \E k \in 1..MaxStacks : HealthProbe(k)
  \/ \E k \in 1..MaxStacks : HealthReceive(k)
  \/ HealthRoundEnd
  \/ HealthSleep
  \/ HealthReturn
  \/ Tick

UpdateSpec == InitUpdate /\ [][NextUpdate]_vars

\* CheckUpdateInformation on its own: any two capacities
InitPure ==
  /\ mode = "update"
  /\ stacks = <<"A">>
  /\ config \in { c \in UpdateConfigs : c.AutoApply }
  /\ group = ZeroCapacity /\ override = NoOverride
  /\ oldCapacity \in Capacities /\ newCapacity \in Capacities
  /\ updateCalls = << >>
  /\ slackOff = config.SlackOff /\ sent = {}
  /\ now = 0
  /\ pc = "CheckUpdate"
  /\ phase = 0
  /\ verdict = "none"
  /\ deployers = << >>
  /\ task = Zero
  /\ calls = [k \in Idx |-> << >>]
  /\ failed = FALSE
  /\ passed = FALSE
  /\ hpc = "idle" /\ healthyStackList = << >> /\ hcount = 0 /\ hprobes = Idle
  /\ hresult = "none" /\ hentry = 0 /\ hrounds = 0 /\ nhprobe = Zero /\ hfirst = Zero
  /\ cpc = "idle" /\ doneStackList = << >> /\ ccount = 0 /\ cprobes = Idle
  /\ cresult = "none" /\ crounds = 0 /\ ncprobe = Zero /\ cfirst = Zero

NextPure == CheckUpdate

PureSpec == InitPure /\ [][NextPure]_vars

\* ---------------------------------------------------------------- properties
\* actions of phases 1..p of mode m, in order
RECURSIVE Upto(_, _)
Upto(m, p) == IF p = 0 THEN << >> ELSE Upto(m, p - 1) \o Phases(m)[p]

AllActions(m) == Upto(m, Len(Phases(m)))

\* stack k has been through every action of phase p
Completed(k, p) == \A a \in Range(Phases(mode)[p]) : a \in Range(calls[k])

\* an action of phase p has been invoked on stack k
Started(k, p) == \E a \in Range(Phases(mode)[p]) : a \in Range(calls[k])

HealthStarted == pc = "Health" \/ hresult # "none" \/ \E k \in Idx : hprobes[k] # "idle"
CleanStarted == pc = "Clean" \/ cresult # "none" \/ \E k \in Idx : cprobes[k] # "idle"

\* the phase after which a poller is called
PollAfter(m, poll) == CHOOSE p \in 1..Len(Phases(m)) : AfterPhase(m, p) = poll

\* C1: phase barrier. An action of phase p+1 has been invoked on some stack,
\* or the poller that follows phase p has been entered, only if every
\* deployer's task of phase p has completed.
C1_PhaseBarrier ==
  /\ \A p \in 1..(Len(Phases(mode)) - 1) :
       (\E k \in Idx : Started(k, p + 1)) => \A j \in DeployerSet : Completed(j, p)
  /\ (mode = "deploy" /\ HealthStarted) => \A j \in DeployerSet : Completed(j, PollAfter("deploy", "Health"))
  /\ CleanStarted => \A j \in DeployerSet : Completed(j, PollAfter(mode, "Clean"))

\* two deployers, one already in phase 2 and the other not yet
C1_Witness ==
  /\ mode = "deploy" /\ Len(deployers) >= 2
  /\ \E k, j \in DeployerSet : Started(k, 2) /\ ~Started(j, 2)

\* C2: failure isolation. Once some action has returned an error, every
\* task still stands exactly after the actions it has invoked (none was
\* skipped, no task was cut short), the run goes on to the next phase, and a
\* run that ends with success has invoked every action on every deployer.
C2_FailureIsolation ==
  failed =>
    /\ verdict \in {"none", "ok", "timeout", "sentinel"}
    /\ \A k \in DeployerSet :
         /\ pc = "Wait" => calls[k] = Upto(mode, phase - 1) \o SubSeq(Phases(mode)[phase], 1, task[k])
         /\ pc \in {"Health", "Clean"} => calls[k] = Upto(mode, phase)
         /\ pc = "Spawn" => calls[k] = Upto(mode, phase - 1)
         /\ verdict = "ok" => calls[k] = AllActions(mode)

\* every action of at least two deployers failed and the run went through
C2_Witness ==
  /\ failed /\ ~passed /\ Len(deployers) >= 2
  /\ verdict = "ok"
  /\ \A k \in DeployerSet : calls[k] = AllActions(mode)

\* C3: order and health gate of a deploy run. The actions invoked on a stack
\* are a prefix of the deploy order; the post-healthy actions only after
\* doHealthchecking returned nil, GatherMetrics only after cleanChecking
\* returned; after a health error no stack gets a further action and the run
\* returns that error.
IsPrefix(s, t) == Len(s) <= Len(t) /\ s = SubSeq(t, 1, Len(s))

C3_DeployOrder ==
  mode = "deploy" =>
    /\ \A k \in Idx :
         /\ IsPrefix(calls[k], AllActions("deploy"))
         /\ Len(calls[k]) > Len(Upto("deploy", 1)) => hresult = "ok"
         /\ Len(calls[k]) > Len(Upto("deploy", 2)) => cresult = "ok"
    /\ hresult \in {"timeout", "sentinel"} =>
         /\ \A k \in Idx : Len(calls[k]) <= Len(Upto("deploy", 1))
         /\ pc \in {"Health", "Done"}
         /\ pc = "Done" => verdict = hresult

\* a complete deploy run over two deployers
C3_Witness ==
  /\ mode = "deploy" /\ verdict = "ok" /\ Len(deployers) >= 2
  /\ \A k \in DeployerSet : calls[k] = AllActions("deploy")

\* the run stopped by a health error, every deployer still at the end of phase 1
C3_WitnessGate ==
  /\ mode = "deploy" /\ pc = "Done" /\ verdict \in {"timeout", "sentinel"}
  /\ Len(deployers) >= 2
  /\ \A k \in DeployerSet : calls[k] = Upto("deploy", 1)

\* the largest of a non-empty set of numbers
MaxOf(S) == CHOOSE x \in S : \A y \in S : y <= x

\* C4: done-set of both pollers. The names in the list are exactly the names
\* of the deployers that have reported true (nothing is removed while the
\* poller runs); a round launches a probe for a deployer iff its name is not
\* in the list; a deployer that reported true was probed as many times as the
\* index of the round in which it did; and the poller returns nil at the end
\* of the round in which the last deployer reported true.
C4_DoneSetState ==
  /\ Range(healthyStackList) = { stacks[k] : k \in { j \in Idx : hfirst[j] # 0 } }
  /\ Range(doneStackList) = { stacks[k] : k \in { j \in Idx : cfirst[j] # 0 } }
  /\ \A k \in Idx : hfirst[k] # 0 => nhprobe[k] = hfirst[k]
  /\ \A k \in Idx : cfirst[k] # 0 => ncprobe[k] = cfirst[k]
  /\ (hpc = "done" /\ hresult = "ok" /\ deployers # << >>) =>
        hrounds = MaxOf({ hfirst[k] : k \in DeployerSet })
  /\ (cpc = "done" /\ cresult = "ok" /\ deployers # << >>) =>
        crounds = MaxOf({ cfirst[k] : k \in DeployerSet })

C4_DoneSetStep ==
  /\ (hpc = "top" /\ hpc' = "collect") =>
        \A k \in DeployerSet :
          (nhprobe'[k] = nhprobe[k] + 1 /\ hprobes'[k] = "run")
            <=> (stacks[k] \notin Range(healthyStackList))
  /\ (hpc = "top" /\ hpc' = "collect") =>
        \A k \in DeployerSet :
          (nhprobe'[k] = nhprobe[k]) <=> (stacks[k] \in Range(healthyStackList))
  /\ (cpc = "top" /\ cpc' = "collect") =>
        \A k \in DeployerSet :
          (ncprobe'[k] = ncprobe[k] + 1 /\ cprobes'[k] = "run")
            <=> (stacks[k] \notin Range(doneStackList))
  /\ (cpc = "top" /\ cpc' = "collect") =>
        \A k \in DeployerSet :
          (ncprobe'[k] = ncprobe[k]) <=> (stacks[k] \in Range(doneStackList))
  /\ hpc' # "idle" => IsPrefix(healthyStackList, healthyStackList')
  /\ cpc' # "idle" => IsPrefix(doneStackList, doneStackList')

C4_DoneSet == []C4_DoneSetState /\ [][C4_DoneSetStep]_vars

\* A true in round 1, B false then true: nil after exactly 2 rounds, one
\* probe of A and two of B
C4_Witness ==
  /\ stacks = <<"A", "B">> /\ deployers = <<1, 2>>
  /\ hpc = "done" /\ hresult = "ok" /\ hrounds = 2
  /\ hfirst = <<1, 2>> /\ nhprobe = <<1, 2>>

\* the same in cleanChecking
C4_WitnessClean ==
  /\ stacks = <<"A", "B">> /\ deployers = <<1, 2>>
  /\ cpc = "done" /\ cresult = "ok" /\ crounds = 2
  /\ cfirst = <<1, 2>> /\ ncprobe = <<1, 2>>

\* C5: the error sentinel. The step in which the collector of
\* doHealthchecking receives a result carrying "error" makes the poller
\* return the sentinel error, whatever was received before in the round and
\* whatever the other probes of the round hold; that result is never turned
\* into success afterwards.
C5_SentinelStep ==
  /\ (\E k \in Idx : hprobes[k] = "error" /\ hprobes'[k] = "idle") =>
        hresult' = "sentinel" /\ hpc' = "done"
  /\ hresult = "sentinel" => (hresult' = "sentinel" /\ verdict' \in {"none", "sentinel"})

C5_Sentinel == [][C5_SentinelStep]_vars

\* all the other probes of the round reported true and were received before
\* the error
C5_Witness ==
  /\ hresult = "sentinel" /\ Len(deployers) >= 2
  /\ Len(healthyStackList) = Len(deployers) - 1
  /\ \A k \in DeployerSet : hprobes[k] = "idle"

\* C6: timeout iff, at a round boundary, the time elapsed exceeds the
\* timeout and the done-set is not complete (the step from the top of the
\* loop decides it; a complete done-set never yields the timeout).
C6_TimeoutStep ==
  (pc = "Health" /\ hpc = "top" /\ hpc' # "top") =>
     ( (hresult' = "timeout")
         <=> ( (now - config.StartTimestamp) > config.Timeout
               /\ Len(healthyStackList) # Len(deployers) ) )

C6_TimeoutIff == [][C6_TimeoutStep]_vars

\* the same with at least one deployer: the deadline decides at the top of
\* the loop, and the end of a round that completes the list returns nil
\* whatever the clock says
C6_TimeoutStepNonEmpty ==
  /\ (deployers # << >> /\ pc = "Health" /\ hpc = "top" /\ hpc' # "top") =>
        ( (hresult' = "timeout")
            <=> ( (now - config.StartTimestamp) > config.Timeout
                  /\ Len(healthyStackList) # Len(deployers) ) )
  /\ (hresult' = "timeout" /\ hresult # "timeout") =>
        (hprobes' = hprobes /\ nhprobe' = nhprobe)
  /\ (pc = "Health" /\ hpc = "collect" /\ hpc' # "collect" /\ hresult' # "sentinel"
        /\ Len(healthyStackList) = Len(deployers)) => hresult' = "ok"

C6_TimeoutIffNonEmpty == [][C6_TimeoutStepNonEmpty]_vars

\* C7 as claimed: a timeout error is returned only when the time elapsed
\* since the loop was entered exceeds the timeout
C7_FromLoopEntryStep ==
  (hresult' = "timeout" /\ hresult # "timeout") => (now - hentry) > config.Timeout

C7_FromLoopEntry == [][C7_FromLoopEntryStep]_vars

\* C7 amended: the deadline is measured from config.StartTimestamp, which is
\* set before the run and never changes; at the top of the loop the timeout
\* error is returned iff the time elapsed since StartTimestamp exceeds the
\* timeout, so the time spent before the loop counts.
C7_FromStartTimestampStep ==
  /\ config' = config
  /\ (pc = "Health" /\ hpc = "top" /\ hpc' # "top") =>
        ( (hresult' = "timeout") <=> ((now - config.StartTimestamp) > config.Timeout) )
  /\ (hresult' = "timeout") => (now' - config.StartTimestamp) > config.Timeout

C7_FromStartTimestamp == [][C7_FromStartTimestampStep]_vars

\* timeout at the first check, no time having passed since the loop was entered
C7_Witness ==
  /\ hresult = "timeout" /\ hrounds = 0 /\ hentry = now
  /\ deployers # << >>

\* C8: cleanChecking has no deadline. It never returns a timeout error,
\* it returns nil only when every deployer has reported true, and, when
\* every deployer eventually reports true, it eventually returns nil,
\* however far the clock has moved.
C8_CleanSafe ==
  /\ cresult \in {"none", "ok"}
  /\ cresult = "ok" => \A k \in DeployerSet : cfirst[k] # 0

C8_CleanTerminates ==
  /\ []C8_CleanSafe
  /\ (\A k \in 1..MaxStacks : <>(k \in DeployerSet => cfirst[k] # 0))
        => <>(cpc = "done" /\ cresult = "ok")

\* nil returned after a second round, the clock at its last tick
C8_Witness ==
  /\ cpc = "done" /\ cresult = "ok" /\ crounds >= 2
  /\ Len(deployers) >= 2 /\ now = MaxTime

\* C9: stack filter. In a deploy or delete run, from the preparation of the
\* deployers on, there is one
\* deployer per declared stack such that the filter is empty or equal to the
\* stack's name, and none for the others; a stack without a deployer never
\* gets an action or a probe.
C9_StackFilter ==
  mode \in Modes =>
    /\ pc \notin {"Start", "LocalCheck", "PrintSummary", "CheckEnabledMetrics", "PrepareDeployers", "Done"} =>
          /\ DeployerSet = { k \in Idx : config.Stack = "" \/ stacks[k] = config.Stack }
          /\ Len(deployers) = Cardinality(DeployerSet)
    /\ \A k \in Idx \ DeployerSet :
          /\ calls[k] = << >>
          /\ hprobes[k] = "idle" /\ nhprobe[k] = 0
          /\ cprobes[k] = "idle" /\ ncprobe[k] = 0

\* three declared stacks, one filtered out, two deployers, run complete
C9_Witness ==
  /\ Len(stacks) = 3 /\ Len(deployers) = 2 /\ config.Stack # ""
  /\ verdict = "ok"
  /\ \A k \in DeployerSet : calls[k] = AllActions(mode)
  /\ \E k \in Idx \ DeployerSet : calls[k] = << >>

\* C10: run verdict. A deploy or delete run returns an error only from the
\* upfront checks
\* (manifest validation, summary, metrics storage), from a declined prompt or
\* from doHealthchecking (timeout or sentinel), whose error it returns as is;
\* an action's error never is the verdict, and a run whose pollers both
\* returned nil returns success whatever its actions returned.
UpfrontErrors == {"validation", "summary", "storage"}

C10_RunVerdict ==
  mode \in Modes =>
    /\ verdict \in {"none", "ok", "declined", "timeout", "sentinel"} \cup UpfrontErrors
    /\ verdict \in UpfrontErrors \cup {"declined"} =>
          (pc = "Done" /\ deployers = << >> /\ \A k \in Idx : calls[k] = << >>)
    /\ verdict \in {"timeout", "sentinel"} => (pc = "Done" /\ hresult = verdict)
    /\ (pc = "Done" /\ cresult = "ok") => verdict = "ok"
    /\ (pc = "Done") <=> (verdict # "none")

\* every action of a deploy run over two deployers failed, both pollers
\* returned nil, and the run returned success
C10_Witness ==
  /\ mode = "deploy" /\ pc = "Done" /\ verdict = "ok"
  /\ failed /\ ~passed /\ Len(deployers) >= 2
  /\ hresult = "ok" /\ cresult = "ok"

\* C11: metrics gate. GatherMetrics is invoked on a deployer only in a run
\* whose metrics collection is enabled (MetricConfig.Enabled).
C11_MetricsGate ==
  \A k \in Idx : "GatherMetrics" \in Range(calls[k]) => config.MetricEnabled

\* C12: delete order. In a delete run the actions invoked on a stack are, in
\* this order, CheckPrevious, SkipDeployStep, TriggerLifecycleCallbacks,
\* CleanPreviousVersion and GatherMetrics, the last only after cleanChecking
\* has returned nil; no other action is invoked and doHealthchecking is never
\* entered.
C12_DeleteOrder ==
  mode = "delete" =>
    /\ \A k \in Idx :
         /\ IsPrefix(calls[k], <<"CheckPrevious", "SkipDeployStep", "TriggerLifecycleCallbacks",
                                 "CleanPreviousVersion", "GatherMetrics">>)
         /\ "GatherMetrics" \in Range(calls[k]) => (cresult = "ok" /\ cpc = "idle")
         /\ hprobes[k] = "idle" /\ nhprobe[k] = 0
    /\ pc # "Health" /\ hpc = "idle" /\ hresult = "none"

\* a delete run over two deployers is complete
C12_Witness ==
  /\ mode = "delete" /\ verdict = "ok" /\ Len(deployers) >= 2
  /\ \A k \in DeployerSet : Len(calls[k]) = 5

\* probe goroutines started and not yet received from
PendingHealth == { k \in Idx : hprobes[k] # "idle" }
PendingClean == { k \in Idx : cprobes[k] # "idle" }

\* C19: round fan-in. As long as no sentinel error was received: a round
\* starts with no probe pending and launches one probe per deployer whose
\* name is not in the list, the count being their number; during the round
\* no probe is launched, each receive takes the message of one pending probe
\* and the count is the number of pending probes; so the round ends, and the
\* next one starts, with no probe pending, and every message received in a
\* round comes from a probe launched in that round.
C19_FanInState ==
  /\ hresult # "sentinel" =>
       /\ hpc # "collect" => PendingHealth = {}
       /\ hpc = "collect" => hcount = Cardinality(PendingHealth)
  /\ cpc # "collect" => PendingClean = {}
  /\ cpc = "collect" => ccount = Cardinality(PendingClean)

C19_FanInStep ==
  /\ (hpc = "top" /\ hpc' = "collect") =>
        /\ PendingHealth' = { k \in DeployerSet : stacks[k] \notin Range(healthyStackList) }
        /\ hcount' = Cardinality(PendingHealth')
        /\ \A k \in PendingHealth' : hprobes'[k] = "run" /\ nhprobe'[k] = nhprobe[k] + 1
  /\ (hpc = "collect" /\ hresult' # "sentinel") =>
        /\ PendingHealth' \subseteq PendingHealth
        /\ nhprobe' = nhprobe
        /\ hcount' # hcount => (hcount' = hcount - 1 /\ Cardinality(PendingHealth') = hcount')
  /\ (cpc = "top" /\ cpc' = "collect") =>
        /\ PendingClean' = { k \in DeployerSet : stacks[k] \notin Range(doneStackList) }
        /\ ccount' = Cardinality(PendingClean')
        /\ \A k \in PendingClean' : cprobes'[k] = "run" /\ ncprobe'[k] = ncprobe[k] + 1
  /\ cpc = "collect" =>
        /\ PendingClean' \subseteq PendingClean
        /\ ncprobe' = ncprobe
        /\ ccount' # ccount => (ccount' = ccount - 1 /\ Cardinality(PendingClean') = ccount')

C19_FanIn == []C19_FanInState /\ [][C19_FanInStep]_vars

\* a second health round is being collected: one of two deployers was
\* healthy in the first round, the other is probed again and is the only
\* probe pending
C19_Witness ==
  /\ pc = "Health" /\ hpc = "collect" /\ hrounds = 2 /\ hcount = 1
  /\ Len(deployers) = 2 /\ Len(healthyStackList) = 1
  /\ \E k \in DeployerSet : hprobes[k] = "true" /\ nhprobe[k] = 2

\* C20: probe leak. When doHealthchecking returns on the sentinel error the
\* other probes of the round are left as they are; from then on nothing is
\* received, so a pending probe never finishes: once blocked on its send it
\* stays blocked with the same message for ever.
C20_LeakState ==
  hresult = "sentinel" => (hpc = "done" /\ pc \in {"Health", "Done"})

C20_LeakStep ==
  /\ (hresult # "sentinel" /\ hresult' = "sentinel") =>
        /\ Cardinality(PendingHealth') = hcount - 1
        /\ PendingHealth' \subseteq PendingHealth
        /\ \A k \in PendingHealth' : hprobes'[k] = hprobes[k]
  /\ hresult = "sentinel" =>
        /\ PendingHealth' = PendingHealth
        /\ \A k \in PendingHealth : hprobes[k] # "run" => hprobes'[k] = hprobes[k]

C20_Leak == []C20_LeakState /\ [][C20_LeakStep]_vars

\* the run has returned the sentinel error and a probe of the last round is
\* blocked on its send
C20_Witness ==
  /\ pc = "Done" /\ verdict = "sentinel" /\ hresult = "sentinel"
  /\ \E k \in DeployerSet : hprobes[k] \in {"true", "false", "error"}

\* C14: confirmation decline. A run that returns the error of a declined
\* prompt (deploy, delete or update) has constructed no deployer, invoked no
\* action and no probe, called inspector.Update not at all and left the live
\* group as it was fetched; with AutoApply set the run never returns that
\* error and goes on from LocalCheck to the next step of its flow.
C14_DeclineState ==
  verdict = "declined" =>
    /\ pc = "Done" /\ ~config.AutoApply
    /\ deployers = << >>
    /\ \A k \in Idx :
         /\ calls[k] = << >>
         /\ hprobes[k] = "idle" /\ nhprobe[k] = 0
         /\ cprobes[k] = "idle" /\ ncprobe[k] = 0
    /\ updateCalls = << >>
    /\ mode = "update" => group = oldCapacity

C14_DeclineStep ==
  (pc = "LocalCheck" /\ pc' # pc /\ config.AutoApply) =>
     /\ verdict' = "none"
     /\ pc' = (CASE mode = "deploy" -> "PrintSummary"
                 [] mode = "delete" -> "CheckEnabledMetrics"
                 [] OTHER -> "UpdateApply")

C14_Decline == []C14_DeclineState /\ [][C14_DeclineStep]_vars

\* an update whose new capacity passed the validation is declined
C14_Witness ==
  /\ mode = "update" /\ verdict = "declined"
  /\ newCapacity # oldCapacity /\ newCapacity.Min <= newCapacity.Desired

\* C15: CheckUpdateInformation(old, new) returns nil if and only if
\* new.Min <= new.Desired <= new.Max and new # old.
C15_NilIff ==
  LET good == /\ newCapacity.Min <= newCapacity.Desired
              /\ newCapacity.Desired <= newCapacity.Max
              /\ newCapacity # oldCapacity
  IN /\ pc = "LocalCheck" => good
     /\ pc = "Done" => (~good /\ verdict \notin {"none", "ok"})

\* nil for a new capacity with Min < Desired < Max, the old one being any
C15_Witness ==
  /\ pc = "LocalCheck" /\ verdict = "none"
  /\ newCapacity.Min < newCapacity.Desired /\ newCapacity.Desired < newCapacity.Max
  /\ oldCapacity.Min > oldCapacity.Max

\* C16: the error of CheckUpdateInformation is the one of the first rule the
\* new capacity violates, in the order Min > Max, Min > Desired,
\* Desired > Max, whatever the old capacity; "nothing is updated" is returned
\* only when no rule is violated and old = new.
C16_FirstRule ==
  pc = "Done" =>
    LET r1 == newCapacity.Min > newCapacity.Max
        r2 == newCapacity.Min > newCapacity.Desired
        r3 == newCapacity.Desired > newCapacity.Max
    IN /\ r1 => verdict = "minimum value cannot be larger than maximum value"
       /\ (~r1 /\ r2) => verdict = "desired value cannot be smaller than maximum value"
       /\ (~r1 /\ ~r2 /\ r3) => verdict = "desired value cannot be larger than max value"
       /\ (verdict = "nothing is updated") <=> (~r1 /\ ~r2 /\ ~r3 /\ oldCapacity = newCapacity)

\* the first two rules are violated and the error is the one of the first
C16_Witness ==
  /\ pc = "Done"
  /\ newCapacity.Min > newCapacity.Max /\ newCapacity.Min > newCapacity.Desired
  /\ verdict = "minimum value cannot be larger than maximum value"

\* C17: validated update. inspector.Update is called at most once, with a
\* capacity whose fields are the overrides that are not negative and the sizes
\* of the live group otherwise, with Min <= Desired <= Max and different from
\* the live group's; a run that returns an error of CheckUpdateInformation has
\* not called it, has no deployer and has started no probe.
CapacityErrors ==
  { "minimum value cannot be larger than maximum value",
    "desired value cannot be smaller than maximum value",
    "desired value cannot be larger than max value",
    "nothing is updated" }

C17_UpdateState ==
  /\ Len(updateCalls) <= 1
  /\ verdict \in CapacityErrors =>
       /\ mode = "update" /\ pc = "Done"
       /\ updateCalls = << >> /\ deployers = << >>
       /\ group = oldCapacity
       /\ \A k \in Idx : hprobes[k] = "idle" /\ nhprobe[k] = 0

C17_UpdateStep ==
  updateCalls' # updateCalls =>
    \E n \in Capacities :
      /\ updateCalls' = Append(updateCalls, n)
      /\ n.Min = (IF override.Min >= 0 THEN override.Min ELSE group.Min)
      /\ n.Max = (IF override.Max >= 0 THEN override.Max ELSE group.Max)
      /\ n.Desired = (IF override.Desired >= 0 THEN override.Desired ELSE group.Desired)
      /\ n.Min <= n.Desired /\ n.Desired <= n.Max
      /\ n # group
      /\ group' \in {group, n}

C17_ValidatedUpdate == []C17_UpdateState /\ [][C17_UpdateStep]_vars

\* an update run is complete: Min was overridden by 0, Max was not given
C17_Witness ==
  /\ mode = "update" /\ verdict = "ok"
  /\ override.Min = 0 /\ override.Max < 0
  /\ oldCapacity.Min > 0
  /\ updateCalls = <<group>> /\ group.Min = 0 /\ group.Max = oldCapacity.Max

\* C13: no message in delete mode. In a run started in delete mode nothing
\* is sent through the Slacker, whatever Config.SlackOff is.
C13_DeleteSilent ==
  mode = "delete" => sent = {}

\* C18: panic recovery. Whatever goroutine of a deploy or delete run panics,
\* the panic is recovered by Deploy / Delete and the process exits with
\* status 1: it never ends by an unrecovered panic.
C18_PanicRecovered ==
  pc # "Crashed"

\* C21: soundness of success. In both pollers, whatever the names of the
\* deployers (several may share one), the list has one entry per deployer
\* that has itself reported true, so it is never longer than the deployers;
\* the poller returns nil only when every deployer has reported true.
C21_Sound ==
  /\ Len(healthyStackList) = Cardinality({ k \in DeployerSet : hfirst[k] # 0 })
  /\ Len(doneStackList) = Cardinality({ k \in DeployerSet : cfirst[k] # 0 })
  /\ Len(healthyStackList) <= Len(deployers)
  /\ Len(doneStackList) <= Len(deployers)
  /\ (hpc = "done" /\ hresult = "ok") => \A k \in DeployerSet : hfirst[k] # 0
  /\ (cpc = "done" /\ cresult = "ok") => \A k \in DeployerSet : cfirst[k] # 0

\* two deployers of the same name both reported true in the first round of
\* doHealthchecking, which returns nil
C21_Witness ==
  /\ Len(deployers) = 2 /\ \A k \in DeployerSet : stacks[k] = "A"
  /\ hpc = "done" /\ hresult = "ok"
  /\ healthyStackList = <<"A", "A">>
  /\ \A k \in DeployerSet : hfirst[k] = 1

\* C22: empty deployer set. A deploy or delete run whose filter lets no
\* declared stack through (or that has none) has no deployer; it invokes no
\* action and starts no probe; each poller returns nil in its first
\* iteration without sleeping, except that doHealthchecking returns the
\* timeout error, before that first iteration, when the time elapsed since
\* StartTimestamp exceeds the timeout; the run returns nil otherwise.
C22_EmptyState ==
  (/\ mode \in Modes
   /\ { k \in Idx : config.Stack = "" \/ stacks[k] = config.Stack } = {}
   /\ pc \notin {"Start", "LocalCheck", "PrintSummary", "CheckEnabledMetrics", "PrepareDeployers"}
   /\ verdict \notin {"validation", "declined", "summary", "storage"}) =>
    /\ deployers = << >>
    /\ \A k \in Idx :
         /\ calls[k] = << >>
         /\ hprobes[k] = "idle" /\ nhprobe[k] = 0
         /\ cprobes[k] = "idle" /\ ncprobe[k] = 0
    /\ hpc # "sleep" /\ cpc # "sleep"
    /\ hcount = 0 /\ ccount = 0
    /\ hrounds <= 1 /\ crounds <= 1
    /\ hresult \in {"none", "ok", "timeout"} /\ cresult \in {"none", "ok"}
    /\ hresult = "timeout" => (hrounds = 0 /\ now - config.StartTimestamp > config.Timeout)
    /\ (cpc = "done") => (cresult = "ok" /\ crounds = 1)
    /\ pc = "Done" => verdict = (IF hresult = "timeout" THEN "timeout" ELSE "ok")

\* the first iteration of a poller with no deployer: the deadline check of
\* doHealthchecking, then a round that ends in nil at once
C22_EmptyStep ==
  (mode \in Modes /\ deployers = << >>) =>
    /\ (pc = "Health" /\ hpc = "top" /\ hpc' # hpc) =>
          IF now - config.StartTimestamp > config.Timeout
          THEN hpc' = "done" /\ hresult' = "timeout"
          ELSE hpc' = "collect" /\ hresult' = hresult
    /\ (hpc = "collect" /\ hpc' # hpc) => (hpc' = "done" /\ hresult' = "ok")
    /\ (cpc = "collect" /\ cpc' # cpc) => (cpc' = "done" /\ cresult' = "ok")

C22_Empty == []C22_EmptyState /\ [][C22_EmptyStep]_vars

\* a deploy run with a declared stack and a filter that names another one
\* has returned nil, both pollers having returned nil
C22_Witness ==
  /\ mode = "deploy" /\ stacks # << >> /\ config.Stack # ""
  /\ deployers = << >>
  /\ pc = "Done" /\ verdict = "ok"
  /\ hresult = "ok" /\ cresult = "ok"

\* the same run with the timeout elapsed before doHealthchecking is called
C22_WitnessTimeout ==
  /\ mode = "deploy" /\ stacks # << >> /\ config.Stack # ""
  /\ deployers = << >>
  /\ pc = "Done" /\ verdict = "timeout" /\ hrounds = 0

====
